---------------------------- MODULE Spec2Model ----------------------------
(***************************************************************************)
(* Bosque County parcel scraper (scraper.py): the paginated fetch loop     *)
(* with retries, the field resolver, the status classifier, the parcel     *)
(* builder, the aggregator and main()'s export step.                       *)
(*                                                                         *)
(* Python strings are sequences of one-character strings, so that lower()  *)
(* and the substring test `kw in s` are computed, not assumed.  Python     *)
(* floats are integers rounded to FloatBits significant bits (round to     *)
(* nearest, ties to even), so that the order of additions matters as it    *)
(* does for binary64.                                                      *)
(***************************************************************************)
EXTENDS Integers, Sequences, FiniteSets, TLC

(***************************************************************************)
(* Bounds of the model.                                                    *)
(***************************************************************************)
\* largest configured retry_attempts that is explored
MaxRetry == 3
\* largest configured max_records_per_request that is explored
MaxPageSize == 2
\* pages whose content is tracked exactly; later pages are past the horizon
MaxPages == 2
\* longest parcel list handed to the aggregator on its own
MaxParcels == 3
\* significand width of the model's floats (binary64 has 53)
FloatBits == 3

\* writes json.dump makes between opening an export file and closing it
ExportChunks == 2

\* viewer requests answered in one behaviour
MaxRequests == 2

\* scrape() calls on one instance after the first
MaxCalls == 1

\* features a fixed service holds
MaxService == 3

(***************************************************************************)
(* Python values: None, str and int.                                       *)
(***************************************************************************)
None == [t |-> "None", s |-> <<>>, n |-> 0]

PyStr(chars) == [t |-> "str", s |-> chars, n |-> 0]

PyInt(k) == [t |-> "int", s |-> <<>>, n |-> k]

\* str.lower() on ASCII letters
LowerChar(c) ==
    LET up == [A |-> "a", B |-> "b", C |-> "c", D |-> "d", E |-> "e", F |-> "f",
               G |-> "g", H |-> "h", I |-> "i", J |-> "j", K |-> "k", L |-> "l",
               M |-> "m", N |-> "n", O |-> "o", P |-> "p", Q |-> "q", R |-> "r",
               S |-> "s", T |-> "t", U |-> "u", V |-> "v", W |-> "w", X |-> "x",
               Y |-> "y", Z |-> "z"]
    IN  IF c \in DOMAIN up THEN up[c] ELSE c

Lower(str) == [i \in 1..Len(str) |-> LowerChar(str[i])]

\* the Python test `kw in str` on strings
Contains(str, kw) ==
    \E i \in 0..(Len(str) - Len(kw)) : SubSeq(str, i + 1, i + Len(kw)) = kw

DigitChars == <<"0", "1", "2", "3", "4", "5", "6", "7", "8", "9">>

RECURSIVE NatToStr(_)
NatToStr(k) ==
    IF k < 10 THEN <<DigitChars[k + 1]>>
    ELSE NatToStr(k \div 10) \o <<DigitChars[(k % 10) + 1]>>

\* str(value) for a value that is not None
Str(value) ==
    IF value.t = "str" THEN value.s
    ELSE IF value.n < 0 THEN <<"-">> \o NatToStr(0 - value.n)
    ELSE NatToStr(value.n)

\* the Python idiom `x or default` on an Optional[str]
OrDefault(x, default) == IF x = None \/ x.s = <<>> THEN default ELSE x.s

(***************************************************************************)
(* Floats: integers with FloatBits significant bits.                       *)
(***************************************************************************)
RECURSIVE Pow2(_)
Pow2(e) == IF e = 0 THEN 1 ELSE 2 * Pow2(e - 1)

RECURSIVE BitLen(_)
BitLen(m) == IF m = 0 THEN 0 ELSE 1 + BitLen(m \div 2)

Abs(x) == IF x < 0 THEN 0 - x ELSE x

\* round to nearest representable value, ties to even
FRound(x) ==
    LET m == Abs(x)
        e == BitLen(m) - FloatBits
        q == m \div Pow2(e)
        r == m % Pow2(e)
        half == Pow2(e - 1)
        up == r > half \/ (r = half /\ q % 2 = 1)
        mag == IF e <= 0 THEN m
               ELSE (IF up THEN q + 1 ELSE q) * Pow2(e)
    IN  IF x < 0 THEN 0 - mag ELSE mag

\* float addition: the exact sum, rounded
FAdd(a, b) == FRound(a + b)

DigitVal(c) == CHOOSE d \in 0..9 : DigitChars[d + 1] = c

IsDigit(c) == \E d \in 1..10 : DigitChars[d] = c

RECURSIVE DigitsToNat(_)
DigitsToNat(ds) ==
    IF ds = <<>> THEN 0
    ELSE 10 * DigitsToNat(SubSeq(ds, 1, Len(ds) - 1)) + DigitVal(ds[Len(ds)])

\* float(str) on integer literals with an optional sign; anything else is a
\* ValueError (ok = FALSE)
ParseFloat(str) ==
    LET signed == str # <<>> /\ str[1] \in {"-", "+"}
        digits == IF signed THEN Tail(str) ELSE str
        wellformed == digits # <<>> /\ \A i \in 1..Len(digits) : IsDigit(digits[i])
        mag == DigitsToNat(digits)
    IN  IF ~wellformed THEN [ok |-> FALSE, v |-> 0]
        ELSE [ok |-> TRUE,
              v |-> FRound(IF signed /\ str[1] = "-" THEN 0 - mag ELSE mag)]

(***************************************************************************)
(* Configuration (config.json): the ordered alias list of every logical    *)
(* field.                                                                  *)
(***************************************************************************)
field_mappings ==
    [parcel_id         |-> <<"PROP_ID", "PARCEL_ID">>,
     owner             |-> <<"OWNER_NAME", "Owner">>,
     acreage           |-> <<"ACRES", "Acreage">>,
     subdivision       |-> <<"SUBDIVISION", "Subdiv">>,
     legal_description |-> <<"LEGAL_DESC", "Legal">>]

(***************************************************************************)
(* ParcelScraper.get_field_value                                           *)
(***************************************************************************)
\* a resolver that passes over an alias holding None
get_field_value_skips_none(properties, field_type) ==
    LET field_variations ==
            IF field_type \in DOMAIN field_mappings
            THEN field_mappings[field_type] ELSE <<>>
        present == {i \in 1..Len(field_variations) :
                        /\ field_variations[i] \in DOMAIN properties
                        /\ properties[field_variations[i]] # None}
    IN  IF present = {} THEN None
        ELSE LET first == CHOOSE i \in present : \A j \in present : i <= j
                 value == properties[field_variations[first]]
             IN  IF value = None THEN None ELSE PyStr(Str(value))

get_field_value(properties, field_type) ==
    LET field_variations ==
            IF field_type \in DOMAIN field_mappings
            THEN field_mappings[field_type] ELSE <<>>
        present == {i \in 1..Len(field_variations) :
                        field_variations[i] \in DOMAIN properties}
    IN  IF present = {} THEN None
        ELSE LET first == CHOOSE i \in present : \A j \in present : i <= j
                 value == properties[field_variations[first]]
             IN  IF value = None THEN None ELSE PyStr(Str(value))

(***************************************************************************)
(* ParcelScraper.determine_parcel_status                                   *)
(***************************************************************************)
solar_keywords ==
    << <<"s","o","l","a","r">>,
       <<"e","n","e","r","g","y">>,
       <<"r","e","n","e","w","a","b","l","e">>,
       <<"p","o","w","e","r">>,
       <<"e","l","e","c","t","r","i","c"," ","u","t","i","l","i","t","y">> >>

lease_keywords ==
    << <<"l","e","a","s","e">>,
       <<"o","p","t","i","o","n">> >>

\* any(keyword in text for keyword in keywords)
AnyKeyword(text, keywords) ==
    \E k \in 1..Len(keywords) : Contains(text, keywords[k])

\* the two tests of determine_parcel_status in the other order
determine_parcel_status_lease_first(properties) ==
    LET owner == OrDefault(get_field_value(properties, "owner"), <<>>)
        legal_desc == OrDefault(get_field_value(properties, "legal_description"), <<>>)
    IN  IF AnyKeyword(Lower(legal_desc), lease_keywords) THEN "active_lease"
        ELSE IF AnyKeyword(Lower(owner), solar_keywords) THEN "solar_developed"
        ELSE "open"

determine_parcel_status(properties) ==
    LET owner == OrDefault(get_field_value(properties, "owner"), <<>>)
        owner_lower == Lower(owner)
        legal_desc == OrDefault(get_field_value(properties, "legal_description"), <<>>)
    IN  IF AnyKeyword(owner_lower, solar_keywords) THEN "solar_developed"
        ELSE IF AnyKeyword(Lower(legal_desc), lease_keywords) THEN "active_lease"
        ELSE "open"

(***************************************************************************)
(* ParcelScraper.parse_parcel.  A feature is [properties |-> p] where p is *)
(* a mapping or None; `field_name in None` raises TypeError, which is the  *)
(* feature-level parse failure.  The pass-through fields (addresses,       *)
(* market value, geometry, raw properties) are left out of the parcel.     *)
(***************************************************************************)
UNKNOWN == <<"U","N","K","N","O","W","N">>

UnknownOwner == <<"U","n","k","n","o","w","n"," ","O","w","n","e","r">>

Unplatted == <<"U","n","p","l","a","t","t","e","d">>

\* try: float(acreage_str) except (ValueError, TypeError): 0.0
AcreageOf(acreage_str) ==
    LET f == ParseFloat(acreage_str) IN IF f.ok THEN f.v ELSE 0

ParseRaises(feature) == feature.properties = None

parse_parcel(feature) ==
    LET properties == feature.properties
    IN  [parcel_id |-> OrDefault(get_field_value(properties, "parcel_id"), UNKNOWN),
         owner |-> OrDefault(get_field_value(properties, "owner"), UnknownOwner),
         legal_description |->
             OrDefault(get_field_value(properties, "legal_description"), <<>>),
         subdivision |->
             OrDefault(get_field_value(properties, "subdivision"), Unplatted),
         acreage |-> AcreageOf(OrDefault(get_field_value(properties, "acreage"), <<"0">>)),
         status |-> determine_parcel_status(properties)]

(***************************************************************************)
(* ParcelScraper.group_by_plat and calculate_statistics                    *)
(***************************************************************************)
NewPlat(plat_name) ==
    [name |-> plat_name, total_parcels |-> 0, total_acreage |-> 0,
     solar_developed |-> 0, active_leases |-> 0, open_land |-> 0,
     parcels |-> <<>>]

\* the loop body of group_by_plat for a plat that exists
PlatAdd(plat, parcel) ==
    [plat EXCEPT
        !.parcels = Append(@, parcel),
        !.total_parcels = @ + 1,
        !.total_acreage = FAdd(@, parcel.acreage),
        !.solar_developed = IF parcel.status = "solar_developed" THEN @ + 1 ELSE @,
        !.active_leases = IF parcel.status = "active_lease" THEN @ + 1 ELSE @,
        !.open_land = IF parcel.status \notin {"solar_developed", "active_lease"}
                      THEN @ + 1 ELSE @]

\* group_by_plat's loop body with the append left to the `else` of the
\* `not in` test: the parcel that opens a plat is not added to it
PlatStepDropsFirst(ps, parcel) ==
    LET plat_name == parcel.subdivision
    IN  [n \in DOMAIN ps \cup {plat_name} |->
            IF n # plat_name THEN ps[n]
            ELSE IF plat_name \in DOMAIN ps THEN PlatAdd(ps[plat_name], parcel)
            ELSE NewPlat(plat_name)]

\* one iteration of `for parcel in self.parcels`
PlatStep(ps, parcel) ==
    LET plat_name == parcel.subdivision
        had == IF plat_name \in DOMAIN ps THEN ps[plat_name] ELSE NewPlat(plat_name)
    IN  [n \in DOMAIN ps \cup {plat_name} |->
            IF n = plat_name THEN PlatAdd(had, parcel) ELSE ps[n]]

RECURSIVE PlatFold(_, _, _)
PlatFold(ps, parcel_list, i) ==
    IF i > Len(parcel_list) THEN ps
    ELSE PlatFold(PlatStep(ps, parcel_list[i]), parcel_list, i + 1)

\* the plats dictionary, keyed by subdivision name
NoPlats == [n \in {} |-> NewPlat(n)]

group_by_plat(parcel_list) == PlatFold(NoPlats, parcel_list, 1)

\* self.stats as __init__ leaves it
InitStats ==
    [total_parcels |-> 0, solar_developed |-> 0, active_leases |-> 0,
     open_land |-> 0, total_acreage |-> 0]

ZeroStats(parcel_list) ==
    [total_parcels |-> Len(parcel_list), solar_developed |-> 0,
     active_leases |-> 0, open_land |-> 0, total_acreage |-> 0,
     solar_acreage |-> 0, lease_acreage |-> 0, open_acreage |-> 0]

\* calculate_statistics' loop body without the count of the lease branch
StatsStepLeaseUncounted(st, parcel) ==
    LET withTotal == [st EXCEPT !.total_acreage = FAdd(@, parcel.acreage)]
    IN  IF parcel.status = "solar_developed"
        THEN [withTotal EXCEPT !.solar_developed = @ + 1,
                               !.solar_acreage = FAdd(@, parcel.acreage)]
        ELSE IF parcel.status = "active_lease"
        THEN [withTotal EXCEPT !.lease_acreage = FAdd(@, parcel.acreage)]
        ELSE [withTotal EXCEPT !.open_land = @ + 1,
                               !.open_acreage = FAdd(@, parcel.acreage)]

\* one iteration of the loop of calculate_statistics
StatsStep(st, parcel) ==
    LET withTotal == [st EXCEPT !.total_acreage = FAdd(@, parcel.acreage)]
    IN  IF parcel.status = "solar_developed"
        THEN [withTotal EXCEPT !.solar_developed = @ + 1,
                               !.solar_acreage = FAdd(@, parcel.acreage)]
        ELSE IF parcel.status = "active_lease"
        THEN [withTotal EXCEPT !.active_leases = @ + 1,
                               !.lease_acreage = FAdd(@, parcel.acreage)]
        ELSE [withTotal EXCEPT !.open_land = @ + 1,
                               !.open_acreage = FAdd(@, parcel.acreage)]

RECURSIVE StatsFold(_, _, _)
StatsFold(st, parcel_list, i) ==
    IF i > Len(parcel_list) THEN st
    ELSE StatsFold(StatsStep(st, parcel_list[i]), parcel_list, i + 1)

calculate_statistics(parcel_list) == StatsFold(ZeroStats(parcel_list), parcel_list, 1)

(***************************************************************************)
(* State.                                                                  *)
(***************************************************************************)
VARIABLES
    retry_attempts,  \* config: scraper_settings.retry_attempts
    max_records,     \* config: scraper_settings.max_records_per_request
    parcels,         \* self.parcels
    plats,           \* self.plats
    stats,           \* self.stats
    computed,        \* which of self.plats / self.stats have been rebuilt
    pc,              \* where main() and scrape() stand
    offset,          \* scrape(): offset
    attempt,         \* query_arcgis_layer(): attempt
    total_fetched,   \* scrape(): total_fetched
    result,          \* what scrape() returned: "none" until it returns
    page_requests,   \* requests issued so far for the page at `offset`
    requests,        \* requests issued so far by this scrape()
    pages_done,      \* 200 responses with a feature list handled so far
    skipped,         \* features dropped by a parse failure so far
    last_response,   \* the kind of the response handled last, or "none"
    last_features,   \* the feature list of the page handled last
    last_sleep,      \* the time.sleep() since the request sent last
    beyond,          \* TRUE once the run is past the MaxPages horizon
    files,           \* the output files written
    exit_code,       \* the process's exit code, -1 while it runs
    cl_owner,        \* classifier input: the owner value, or Absent
    cl_legal,        \* classifier input: the legal description value, or Absent
    cl_props,        \* classifier input: the raw property mapping
    cl_status,       \* classifier output, "unset" before the call
    req_offsets,     \* the offsets requested so far by this scrape(), in order
    entry,           \* the script that runs: "main" or "test"
    target_polygon,  \* the keys of self.config['target_polygon']
    svc,             \* the feature list the remote service holds, when it is fixed
    calls,           \* scrape() calls made after the first on this instance
    fn_field,        \* resolver input: the logical field name
    fn_first,        \* resolver input: the value under the field's first alias
    fn_second,       \* resolver input: the value under the field's second alias
    fn_props,        \* resolver and builder input: the raw property mapping
    fn_out,          \* resolver or builder output, Unset before the call
    disk,            \* output/: file name -> "partial" or "complete"
    exp_pc,          \* the file the exporter is writing, or "idle" / "done"
    written,         \* chunks of that file written so far
    vw_endpoint,     \* the viewer endpoint requested last
    vw_response,     \* the status of the viewer's last response, 0 if none
    vw_served        \* viewer requests answered so far

configVars == <<retry_attempts, max_records>>

objVars == <<parcels, plats, stats, computed>>

histVars == <<page_requests, requests, pages_done, skipped, last_response,
              last_features, last_sleep, beyond, req_offsets>>

runVars == <<pc, offset, attempt, total_fetched, result, files, exit_code>>

clVars == <<cl_owner, cl_legal, cl_props, cl_status>>

callVars == <<entry, target_polygon, svc, calls>>

fnVars == <<fn_field, fn_first, fn_second, fn_props, fn_out>>

viewVars == <<disk, exp_pc, written, vw_endpoint, vw_response, vw_served>>

auxVars == <<callVars, fnVars, viewVars>>

vars == <<configVars, objVars, runVars, histVars, clVars, auxVars>>

\* last_sleep: no sleep, the retry backoff, or the rate limit between pages
NoSleep == <<>>

BackoffSleep(seconds) == <<"backoff", seconds>>

RateLimitSleep == <<"rate_limit">>

\* ParcelScraper.__init__ and the start of the process
Constructed ==
    /\ parcels = <<>>
    /\ plats = NoPlats
    /\ stats = InitStats
    /\ computed = {}
    /\ pc = "idle"
    /\ offset = 0
    /\ attempt = 0
    /\ total_fetched = 0
    /\ result = "none"
    /\ page_requests = 0
    /\ requests = 0
    /\ pages_done = 0
    /\ skipped = 0
    /\ last_response = "none"
    /\ last_features = <<>>
    /\ last_sleep = NoSleep
    /\ beyond = FALSE
    /\ req_offsets = <<>>
    /\ files = {}
    /\ exit_code = -1

ClassifierUnused ==
    /\ cl_owner = None
    /\ cl_legal = None
    /\ cl_props = [k \in {} |-> None]
    /\ cl_status = "unset"

\* the keys of config.json's target_polygon: a GeoJSON polygon and a description
configured_polygon == {"type", "coordinates", "description"}

\* the keys of the dict test_small_area() puts in its place
test_polygon == {"type", "coordinates"}

\* main() on the configured polygon, one scrape() call, any service
MainCalls ==
    /\ entry = "main"
    /\ target_polygon = configured_polygon
    /\ svc = <<>>
    /\ calls = 0

Unset == [t |-> "unset", s |-> <<>>, n |-> 0]

ResolverUnused ==
    /\ fn_field = ""
    /\ fn_first = None
    /\ fn_second = None
    /\ fn_props = [k \in {} |-> None]
    /\ fn_out = Unset

\* no export under way, an empty output directory, no viewer request
ViewerUnused ==
    /\ disk = [f \in {} |-> "complete"]
    /\ exp_pc = "idle"
    /\ written = 0
    /\ vw_endpoint = ""
    /\ vw_response = 0
    /\ vw_served = 0

(***************************************************************************)
(* The classifier on its own: determine_parcel_status applied to a raw     *)
(* property mapping built from an owner value and a legal description.     *)
(***************************************************************************)
Absent == [t |-> "absent", s |-> <<>>, n |-> 0]

OwnerInputs ==
    {Absent, None, PyInt(42), PyStr(<<>>),
     PyStr(<<"A","c","m","e"," ","S","o","l","a","r"," ","L","L","C">>),
     PyStr(<<"J","a","n","e"," ","D","o","e">>),
     PyStr(<<"S","U","N","R","I","S","E"," ","S","O","L","A","R">>),
     PyStr(<<"B","r","a","z","o","s"," ","P","o","w","e","r">>),
     PyStr(<<"E","l","e","c","t","r","i","c"," ","U","t","i","l","i","t","y"," ","C","o">>),
     PyStr(<<"E","l","e","c","t","r","i","c"," ","C","o">>),
     PyStr(<<"G","r","e","e","n"," ","E","n","E","r","G","y">>),
     PyStr(<<"R","e","n","e","w","a","b","l","e","s"," ","I","n","c">>),
     PyStr(<<"O","i","l"," ","L","e","a","s","e"," ","C","o">>)}

LegalInputs ==
    {Absent, None, PyInt(7), PyStr(<<>>),
     PyStr(<<"1","0","-","y","e","a","r"," ","l","e","a","s","e"," ","o","p","t","i","o","n">>),
     PyStr(<<"L","o","t"," ","4"," ","B","l","o","c","k"," ","2">>),
     PyStr(<<"O","I","L"," ","L","E","A","S","E">>),
     PyStr(<<"O","p","t","i","o","n"," ","A">>),
     PyStr(<<"S","o","l","a","r"," ","t","r","a","c","t">>)}

\* the mapping that holds value v under key k, or nothing when v is absent
Entry(k, v) == IF v = Absent THEN [x \in {} |-> None] ELSE [x \in {k} |-> v]

InitClassify ==
    /\ retry_attempts = 1
    /\ max_records = 1
    /\ Constructed
    /\ cl_owner \in OwnerInputs
    /\ cl_legal \in LegalInputs
    /\ \E ko \in {"OWNER_NAME", "Owner"}, kl \in {"LEGAL_DESC", "Legal"} :
           cl_props = Entry(ko, cl_owner) @@ Entry(kl, cl_legal)
    /\ cl_status = "unset"
    /\ MainCalls
    /\ ResolverUnused
    /\ ViewerUnused

Classify ==
    /\ cl_status = "unset"
    /\ cl_status' = determine_parcel_status(cl_props)
    /\ UNCHANGED <<configVars, objVars, runVars, histVars, cl_owner, cl_legal, cl_props,
                   auxVars>>

NextClassify == Classify

ClassifySpec == InitClassify /\ [][NextClassify]_vars

\* what the specification of the classifier lists
SpecSolarWords ==
    { <<"s","o","l","a","r">>, <<"e","n","e","r","g","y">>,
      <<"r","e","n","e","w","a","b","l","e">>, <<"p","o","w","e","r">>,
      <<"e","l","e","c","t","r","i","c"," ","u","t","i","l","i","t","y">> }

SpecLeaseWords == { <<"l","e","a","s","e">>, <<"o","p","t","i","o","n">> }

CaseFold ==
    [a |-> "A", b |-> "B", c |-> "C", d |-> "D", e |-> "E", f |-> "F", g |-> "G",
     h |-> "H", i |-> "I", j |-> "J", k |-> "K", l |-> "L", m |-> "M", n |-> "N",
     o |-> "O", p |-> "P", q |-> "Q", r |-> "R", s |-> "S", t |-> "T", u |-> "U",
     v |-> "V", w |-> "W", x |-> "X", y |-> "Y", z |-> "Z"]

\* c is the lower-case character d in either case
SameLetter(c, d) == c = d \/ (d \in DOMAIN CaseFold /\ c = CaseFold[d])

\* text holds the lower-case word somewhere, in any mix of cases
HoldsWord(text, word) ==
    \E at \in 0..(Len(text) - Len(word)) :
        \A j \in 1..Len(word) : SameLetter(text[at + j], word[j])

\* the text of an input; None, an absent key and a number hold no word
TextOf(v) == IF v.t = "str" THEN v.s ELSE <<>>

OwnerIsSolar == \E w \in SpecSolarWords : HoldsWord(TextOf(cl_owner), w)

LegalIsLease == \E w \in SpecLeaseWords : HoldsWord(TextOf(cl_legal), w)

\* C10: the classifier returns exactly one of the three statuses:
\* solar_developed exactly when the owner holds a solar word in any case,
\* whatever the legal description says; active_lease exactly when the owner
\* does not and the legal description holds a lease word; open otherwise.
\* An absent or None owner or legal description counts as the empty string.
ClassifierPrecedence ==
    cl_status # "unset" =>
        /\ cl_status \in {"solar_developed", "active_lease", "open"}
        /\ (cl_status = "solar_developed") <=> OwnerIsSolar
        /\ (cl_status = "active_lease") <=> (~OwnerIsSolar /\ LegalIsLease)
        /\ (cl_status = "open") <=> (~OwnerIsSolar /\ ~LegalIsLease)

\* the owner holds a solar word and the legal description a lease word
ClassifierPrecedenceWitness ==
    cl_status = "solar_developed" /\ OwnerIsSolar /\ LegalIsLease

(***************************************************************************)
(* The resolver on its own: get_field_value applied to a logical field and *)
(* a raw property mapping that holds, or does not hold, a value under each *)
(* of two candidate keys, next to a key no alias list names.               *)
(***************************************************************************)
ResolveFields == {"owner", "acreage", "zoning"}

\* the two keys the mapping may hold for a field; "zoning" has no alias list
ResolveKeys ==
    [owner   |-> <<"OWNER_NAME", "Owner">>,
     acreage |-> <<"ACRES", "Acreage">>,
     zoning  |-> <<"ZONING", "Zoning">>]

ResolveInputs ==
    {Absent, None, PyStr(<<>>), PyStr(<<"B","o","b">>), PyInt(42), PyInt(-7)}

InitResolve ==
    /\ retry_attempts = 1
    /\ max_records = 1
    /\ Constructed
    /\ ClassifierUnused
    /\ MainCalls
    /\ ViewerUnused
    /\ fn_field \in ResolveFields
    /\ fn_first \in ResolveInputs
    /\ fn_second \in ResolveInputs
    /\ \E other \in {Absent, PyStr(<<"x">>)} :
           fn_props = Entry(ResolveKeys[fn_field][1], fn_first)
                        @@ Entry(ResolveKeys[fn_field][2], fn_second)
                        @@ Entry("OBJECTID", other)
    /\ fn_out = Unset

Resolve ==
    /\ fn_out = Unset
    /\ fn_out' = get_field_value(fn_props, fn_field)
    /\ UNCHANGED <<configVars, objVars, runVars, histVars, clVars, callVars,
                   fn_field, fn_first, fn_second, fn_props, viewVars>>

NextResolve == Resolve

ResolveSpec == InitResolve /\ [][NextResolve]_vars

\* the text Python's str() gives for each non-None input
StringForm(v) ==
    CASE v = PyStr(<<>>) -> <<>>
      [] v = PyStr(<<"B","o","b">>) -> <<"B","o","b">>
      [] v = PyInt(42) -> <<"4","2">>
      [] v = PyInt(-7) -> <<"-","7">>

HasAliases == fn_field \in {"owner", "acreage"}

NoAliasPresent == ~HasAliases \/ (fn_first = Absent /\ fn_second = Absent)

\* the value under the first alias that is present
FirstPresent == IF fn_first # Absent THEN fn_first ELSE fn_second

\* C11 as stated: the resolver returns None only if no alias of the field
\* is present in the mapping.
ResolverNoneOnlyIfAbsent ==
    fn_out = None => NoAliasPresent

\* C11: the resolver returns the string form of the value under the first
\* alias of the field that is present in the mapping, whatever the later
\* aliases and the other keys hold; it returns None exactly when no alias is
\* present (or the field has no alias list) or when the first alias present
\* holds None.
ResolverFirstPresent ==
    fn_out # Unset =>
        IF NoAliasPresent \/ FirstPresent = None
        THEN fn_out = None
        ELSE fn_out = PyStr(StringForm(FirstPresent))

\* only the second alias of owner is present, and it holds "Bob"
ResolverFirstPresentWitness ==
    /\ fn_field = "owner"
    /\ fn_first = Absent
    /\ fn_second = PyStr(<<"B","o","b">>)
    /\ fn_out = PyStr(<<"B","o","b">>)

(***************************************************************************)
(* The parcel builder on its own: parse_parcel applied to a feature whose  *)
(* properties hold, or do not hold, a raw acreage under each acreage alias *)
(* and an owner.                                                           *)
(***************************************************************************)
AcreageInputs ==
    {Absent, None, PyStr(<<>>), PyStr(<<"1","2">>), PyStr(<<"-","3">>),
     PyStr(<<"n","o","t","-","a","-","n","u","m","b","e","r">>),
     PyInt(8), PyInt(-5)}

InitParse ==
    /\ retry_attempts = 1
    /\ max_records = 1
    /\ Constructed
    /\ ClassifierUnused
    /\ MainCalls
    /\ ViewerUnused
    /\ fn_field = "acreage"
    /\ fn_first \in AcreageInputs
    /\ fn_second \in AcreageInputs
    /\ \E owner \in {Absent, PyStr(<<"B","o","b">>)} :
           fn_props = Entry("ACRES", fn_first) @@ Entry("Acreage", fn_second)
                        @@ Entry("OWNER_NAME", owner)
    /\ fn_out = Unset

Parse ==
    /\ fn_out = Unset
    /\ fn_out' = parse_parcel([properties |-> fn_props])
    /\ UNCHANGED <<configVars, objVars, runVars, histVars, clVars, callVars,
                   fn_field, fn_first, fn_second, fn_props, viewVars>>

NextParse == Parse

ParseSpec == InitParse /\ [][NextParse]_vars

\* C12: every parcel parse_parcel produces has an acreage of at least 0.
AcreageNonNegative ==
    fn_out # Unset => fn_out.acreage >= 0

(***************************************************************************)
(* The scrape: main() calls scrape(), which calls query_arcgis_layer() for *)
(* one page after the other.  A request and the handling of its response   *)
(* are separate steps; the remote service chooses the response.            *)
(***************************************************************************)
FeatSolar ==
    [properties |->
        [OWNER_NAME |-> PyStr(<<"A","c","m","e"," ","S","o","l","a","r"," ","L","L","C">>),
         SUBDIVISION |-> PyStr(<<"O","a","k"," ","H","i","l","l">>),
         ACRES |-> PyInt(8)]]

\* a feature whose properties are null: parse_parcel raises on it
FeatBad == [properties |-> None]

Features == {FeatSolar, FeatBad}

\* the feature lists of at most n features
RECURSIVE FeatureLists(_)
FeatureLists(n) ==
    IF n = 0 THEN {<<>>}
    ELSE LET shorter == FeatureLists(n - 1)
         IN  shorter \cup {Append(fs, f) : fs \in {s \in shorter : Len(s) = n - 1},
                                           f \in Features}

\* the loop over a page's features with the try/except around the loop: the
\* first parse failure ends the page
RECURSIVE ParsePageAborts(_, _)
ParsePageAborts(features, i) ==
    IF i > Len(features) \/ ParseRaises(features[i]) THEN <<>>
    ELSE <<parse_parcel(features[i])>> \o ParsePageAborts(features, i + 1)

\* scrape(): the loop `for feature in features` with its try/except
RECURSIVE ParsePage(_, _)
ParsePage(features, i) ==
    IF i > Len(features) THEN <<>>
    ELSE IF ParseRaises(features[i]) THEN ParsePage(features, i + 1)
    ELSE <<parse_parcel(features[i])>> \o ParsePage(features, i + 1)

\* the last-page test, off by one
IsLastPageOffByOne(features, page_size) == Len(features) < page_size - 1

\* scrape(): `if len(features) < self.max_records`
IsLastPage(features, page_size) == Len(features) < page_size

\* the offset left where it is
NextOffsetStuck(off, page_size) == off

\* scrape(): `offset += self.max_records`
NextOffset(off, page_size) == off + page_size

\* one attempt too many
InRangeOffByOne(a, n) == a <= n

\* query_arcgis_layer(): `for attempt in range(self.retry_attempts)`
InRange(a, n) == a < n

\* query_arcgis_layer(): `if attempt < self.retry_attempts - 1` before the sleep
SleepsAfter(a, n) == a < n - 1

\* main() without the test of scrape()'s return value
MainOutcomeAlwaysExports(scrape_result) ==
    [files |-> {"json", "geojson", "csv"},
     exit_code |-> IF scrape_result = "false" THEN 1 ELSE 0]

\* main(): what follows scrape()'s return value
MainOutcome(scrape_result) ==
    IF scrape_result = "false"
    THEN [files |-> {}, exit_code |-> 1]
    ELSE [files |-> {"json", "geojson", "csv"}, exit_code |-> 0]

\* test_small_area(): what follows scrape()'s return value.  export_json
\* builds its metadata from target_polygon['description'] before it opens
\* the file.
TestOutcome(scrape_result, polygon) ==
    IF scrape_result = "false" THEN [files |-> {}, exit_code |-> 1]
    ELSE IF "description" \notin polygon THEN [files |-> {}, exit_code |-> 1]
    ELSE [files |-> {"test_json", "test_geojson", "pages_geojson"}, exit_code |-> 0]

\* either script has built its ParcelScraper from config.json
Init ==
    /\ retry_attempts \in 1..MaxRetry
    /\ max_records \in 1..MaxPageSize
    /\ Constructed
    /\ ClassifierUnused
    /\ entry \in {"main", "test"}
    /\ target_polygon = configured_polygon
    /\ svc = <<>>
    /\ calls = 0
    /\ ResolverUnused
    /\ ViewerUnused

\* test_small_area(): scraper.config['target_polygon'] = test_polygon
OverridePolygon ==
    /\ pc = "idle"
    /\ entry = "test"
    /\ target_polygon = configured_polygon
    /\ target_polygon' = test_polygon
    /\ UNCHANGED <<configVars, objVars, runVars, histVars, clVars, entry, svc, calls,
                   fnVars, viewVars>>

\* the script is about to call scraper.scrape()
ReadyToScrape ==
    /\ pc = "idle"
    /\ entry = "test" => target_polygon = test_polygon

\* scrape() prints self.config['target_polygon']['description'] before its
\* loop: a KeyError without that key, which neither script catches
ScrapeRaises ==
    /\ ReadyToScrape
    /\ "description" \notin target_polygon
    /\ pc' = "exit"
    /\ exit_code' = 1
    /\ UNCHANGED <<offset, attempt, total_fetched, result, files, configVars, objVars,
                   histVars, clVars, auxVars>>

\* main() or test_small_area() calls scraper.scrape()
StartScrape ==
    /\ ReadyToScrape
    /\ "description" \in target_polygon
    /\ pc' = "send"
    /\ offset' = 0
    /\ total_fetched' = 0
    /\ attempt' = 0
    /\ UNCHANGED <<result, files, exit_code, configVars, objVars, histVars, clVars, auxVars>>

\* the paging parameters with the offset left out
QueryParamsNoOffset(off, page_size) ==
    [resultOffset |-> 0, resultRecordCount |-> page_size]

\* query_arcgis_layer(): the paging parameters of `params`
QueryParams(off, page_size) ==
    [resultOffset |-> off, resultRecordCount |-> page_size]

\* query_arcgis_layer(): self.session.get(...)
SendRequest ==
    /\ pc = "send"
    /\ pc' = "wait"
    /\ page_requests' = page_requests + 1
    /\ requests' = IF beyond THEN requests ELSE requests + 1
    /\ last_sleep' = NoSleep
    /\ req_offsets' = IF beyond \/ page_requests > 0 THEN req_offsets
                      ELSE Append(req_offsets,
                                  QueryParams(offset, max_records).resultOffset)
    /\ UNCHANGED <<offset, attempt, total_fetched, result, files, exit_code,
                   pages_done, skipped, last_response, last_features, beyond,
                   configVars, objVars, clVars, auxVars>>

\* the end of one failed iteration of the retry loop: the next iteration, or
\* `return None` and scrape()'s `return False`
AttemptFailed ==
    /\ attempt' = attempt + 1
    /\ IF InRange(attempt + 1, retry_attempts)
       THEN pc' = "send" /\ result' = result
       ELSE pc' = "returned" /\ result' = "false"
    /\ UNCHANGED <<offset, total_fetched, files, exit_code, page_requests, requests,
                   pages_done, skipped, last_features, beyond, req_offsets,
                   configVars, objVars, clVars, auxVars>>

\* the request raises requests.RequestException
TransportError ==
    /\ pc = "wait"
    /\ last_response' = "transport"
    /\ last_sleep' = IF SleepsAfter(attempt, retry_attempts)
                     THEN BackoffSleep(Pow2(attempt)) ELSE NoSleep
    /\ AttemptFailed

\* the response has a status code other than 200
HttpError ==
    /\ pc = "wait"
    /\ last_response' = "http"
    /\ last_sleep' = NoSleep
    /\ AttemptFailed

\* status 200 with a body that is not JSON: response.json() raises.  With a
\* requests library whose JSONDecodeError is a RequestException the except
\* clause catches it; otherwise the ValueError leaves scrape() and main() and
\* the interpreter exits with status 1.
BodyUnparsable ==
    /\ pc = "wait"
    /\ last_response' = "unparsable"
    /\ \/ /\ last_sleep' = IF SleepsAfter(attempt, retry_attempts)
                           THEN BackoffSleep(Pow2(attempt)) ELSE NoSleep
          /\ AttemptFailed
       \/ /\ pc' = "exit"
          /\ exit_code' = 1
          /\ UNCHANGED <<offset, attempt, total_fetched, result, files,
                         page_requests, requests, pages_done, skipped,
                         last_features, last_sleep, beyond, req_offsets,
                         configVars, objVars, clVars, auxVars>>

\* scrape(): `break`, then group_by_plat(), calculate_statistics(), return True
FinishWith(parcel_list) ==
    /\ parcels' = parcel_list
    /\ plats' = group_by_plat(parcel_list)
    /\ stats' = calculate_statistics(parcel_list)
    /\ computed' = {"plats", "stats"}
    /\ result' = "true"
    /\ pc' = "returned"
    /\ UNCHANGED <<offset, attempt, page_requests, beyond>>

\* status 200 with a JSON document that has no `features` (an error
\* document): result.get('features', []) is empty
BodyWithoutFeatures ==
    /\ pc = "wait"
    /\ last_response' = "no_features"
    /\ FinishWith(parcels)
    /\ UNCHANGED <<total_fetched, files, exit_code, requests, pages_done, skipped,
                   last_features, last_sleep, req_offsets, configVars, clVars, auxVars>>

\* scrape() with the feature collection of a 200 response in hand
HandlePage(features) ==
    /\  LET parsed == ParsePage(features, 1)
            grown == IF beyond THEN parcels ELSE parcels \o parsed
        IN  /\ last_response' = "page"
            /\ last_features' = features
            /\ pages_done' = IF beyond THEN pages_done ELSE pages_done + 1
            /\ skipped' = IF beyond THEN skipped
                          ELSE skipped + (Len(features) - Len(parsed))
            /\ total_fetched' = IF beyond THEN total_fetched
                                ELSE total_fetched + Len(parsed)
            /\ IF features = <<>> \/ IsLastPage(features, max_records)
               THEN /\ FinishWith(grown)
                    /\ UNCHANGED last_sleep
               ELSE /\ parcels' = grown
                    /\ offset' = IF beyond THEN offset ELSE NextOffset(offset, max_records)
                    /\ beyond' = (beyond \/ pages_done + 1 >= MaxPages)
                    /\ last_sleep' = RateLimitSleep
                    /\ attempt' = 0
                    /\ page_requests' = 0
                    /\ pc' = "send"
                    /\ UNCHANGED <<plats, stats, computed, result>>
    /\ UNCHANGED <<files, exit_code, requests, req_offsets, configVars, clVars, auxVars>>

\* status 200 with a feature collection
PageReceived ==
    /\ pc = "wait"
    /\ \E features \in FeatureLists(max_records) : HandlePage(features)

\* main() after scrape() has returned: return 1, or the three exports and
\* return 0
MainFinish ==
    /\ pc = "returned"
    /\ pc' = "exit"
    /\ LET outcome == IF entry = "test" THEN TestOutcome(result, target_polygon)
                      ELSE MainOutcome(result)
       IN  /\ files' = outcome.files
           /\ exit_code' = outcome.exit_code
    /\ UNCHANGED <<offset, attempt, total_fetched, result, configVars, objVars,
                   histVars, clVars, auxVars>>

Next ==
    \/ OverridePolygon
    \/ ScrapeRaises
    \/ StartScrape
    \/ SendRequest
    \/ TransportError
    \/ HttpError
    \/ BodyUnparsable
    \/ BodyWithoutFeatures
    \/ PageReceived
    \/ MainFinish

Spec == Init /\ [][Next]_vars

\* the process keeps running while it can
FairSpec == Spec /\ WF_vars(Next)

(***************************************************************************)
(* Properties of the scrape.                                               *)
(***************************************************************************)
Scraping == pc \in {"send", "wait"}

Stopped == pc \in {"returned", "exit"}

EndsWith(whole, tail) ==
    /\ Len(tail) <= Len(whole)
    /\ SubSeq(whole, Len(whole) - Len(tail) + 1, Len(whole)) = tail

\* C1: every failed attempt for a page costs one request; scrape() returns
\* False exactly when retry_attempts attempts for the page have failed, after
\* exactly retry_attempts requests for it, and requests nothing afterwards.
RetryExhaustion ==
    /\ pc = "send" => page_requests = attempt /\ attempt < retry_attempts
    /\ pc = "wait" => page_requests = attempt + 1 /\ attempt < retry_attempts
    /\ (attempt = retry_attempts) <=> (result = "false")
    /\ result = "false" =>
        /\ page_requests = retry_attempts
        /\ last_response \in {"transport", "http", "unparsable"}
        /\ Stopped
        /\ files = {}

\* three attempts, all failed
RetryExhaustionWitness ==
    result = "false" /\ retry_attempts = 3 /\ page_requests = 3

\* C2: a request that follows a failed attempt a - 1 for the same page is
\* preceded by a sleep of 2^(a-1) seconds, whichever way the attempt failed.
BackoffBetweenAttempts ==
    (pc = "send" /\ attempt > 0) => last_sleep = BackoffSleep(Pow2(attempt - 1))

\* C3: a 200 response whose body is not a feature collection counts as a
\* failed attempt: the page is tried again or, the attempts used up, scrape()
\* returns False; it is never an empty last page.
MalformedBodyIsFailedAttempt ==
    last_response \in {"unparsable", "no_features"} =>
        /\ attempt > 0
        /\ Scraping \/ result = "false"

\* C4: files are written only after scrape() returned True, all three and
\* with exit code 0; after an abandoned page main() returns 1 and writes
\* nothing.
NoPartialExport ==
    /\ files # {} => result = "true" /\ pc = "exit" /\ exit_code = 0
    /\ (pc = "exit" /\ result = "false") => exit_code = 1 /\ files = {}
    /\ (pc = "exit" /\ result = "true") =>
            exit_code = 0 /\ files = {"json", "geojson", "csv"}

\* a later page was abandoned after parcels had been accumulated
NoPartialExportWitness ==
    pc = "exit" /\ result = "false" /\ parcels # <<>> /\ offset > 0

\* the parcels of the features of a page that parse, in page order
GoodParcels(features) ==
    LET good == SelectSeq(features, LAMBDA f : f.properties # None)
    IN  [i \in 1..Len(good) |-> parse_parcel(good[i])]

\* C5: a page with fewer features than the page size ends the scrape: its
\* features are consumed, scrape() returns True, and no request and no sleep
\* follow; an empty page adds no parcel.
LastPageStops ==
    (last_response = "page" /\ Len(last_features) < max_records) =>
        /\ result = "true"
        /\ Stopped
        /\ last_sleep = NoSleep
        /\ ~beyond =>
            /\ EndsWith(parcels, GoodParcels(last_features))
            /\ Len(parcels) + skipped =
                    max_records * (pages_done - 1) + Len(last_features)
            /\ offset = max_records * (pages_done - 1)

\* a page that is neither empty nor full
LastPageStopsWitness ==
    /\ last_response = "page"
    /\ last_features # <<>>
    /\ Len(last_features) < max_records
    /\ result = "true"
    /\ offset > 0

\* C6 as claimed: scrape() returns, and the process ends, whatever the
\* service answers.
PaginationTerminates == <>(pc = "exit")

\* C6: the loop goes on only after full pages: while scrape() runs, every
\* page so far was full and the offset is their number times the page size,
\* reached with at most retry_attempts requests a page; and a full page at
\* offset 0 followed by an empty page at the next offset, each on the first
\* attempt, ends the scrape after the second request with page-size parcels.
PaginationStopsAfterFullPages ==
    /\ (Scraping /\ ~beyond) =>
        /\ offset = max_records * pages_done
        /\ Len(parcels) + skipped = max_records * pages_done
    /\ ~beyond => requests <= retry_attempts * ((offset \div max_records) + 1)
    /\ (/\ offset = max_records
        /\ requests = 2
        /\ last_response = "page"
        /\ last_features = <<>>
        /\ skipped = 0)
       => (result = "true" /\ Stopped /\ Len(parcels) = max_records
           /\ total_fetched = max_records)

\* a full page, then an empty one
PaginationStopsWitness ==
    /\ offset = max_records
    /\ max_records = 2
    /\ requests = 2
    /\ last_response = "page"
    /\ last_features = <<>>
    /\ skipped = 0
    /\ result = "true"

HasBad(features) == \E i \in 1..Len(features) : features[i].properties = None

\* C7: a page with a feature that fails to parse: the page's other features
\* are appended in order, and the loop goes on by the number of features
\* returned: a short page ends the scrape with True, a full page advances the
\* offset.
SkippedFeatureKeepsRest ==
    (last_response = "page" /\ ~beyond /\ HasBad(last_features)) =>
        /\ EndsWith(parcels, GoodParcels(last_features))
        /\ Len(parcels) = total_fetched
        /\ result # "false"
        /\ IF Len(last_features) < max_records
           THEN result = "true" /\ offset = max_records * (pages_done - 1)
           ELSE result = "none" /\ Scraping /\ offset = max_records * pages_done

\* a full page whose first feature fails and whose second is kept
SkippedFeatureWitness ==
    /\ last_response = "page"
    /\ Len(last_features) = 2
    /\ max_records = 2
    /\ last_features[1] = FeatBad
    /\ last_features[2] = FeatSolar
    /\ pc = "send"
    /\ ~beyond

(***************************************************************************)
(* The aggregator on its own: group_by_plat() and calculate_statistics()   *)
(* on a scraper that holds an arbitrary parcel list.                       *)
(***************************************************************************)
OakHill == <<"O","a","k"," ","H","i","l","l">>

AggAcreages == {1, 8, -2}

AggParcels ==
    [parcel_id : {UNKNOWN}, owner : {UnknownOwner}, legal_description : {<<>>},
     subdivision : {Unplatted, OakHill},
     acreage : AggAcreages,
     status : {"solar_developed", "active_lease", "open"}]

RECURSIVE ParcelLists(_)
ParcelLists(n) ==
    IF n = 0 THEN {<<>>}
    ELSE LET shorter == ParcelLists(n - 1)
         IN  shorter \cup {Append(ps, p) : ps \in {s \in shorter : Len(s) = n - 1},
                                           p \in AggParcels}

InitAgg ==
    /\ retry_attempts = 1
    /\ max_records = 1
    /\ parcels \in ParcelLists(MaxParcels)
    /\ plats = NoPlats
    /\ stats = InitStats
    /\ computed = {}
    /\ pc = "idle"
    /\ offset = 0
    /\ attempt = 0
    /\ total_fetched = 0
    /\ result = "none"
    /\ page_requests = 0
    /\ requests = 0
    /\ pages_done = 0
    /\ skipped = 0
    /\ last_response = "none"
    /\ last_features = <<>>
    /\ last_sleep = NoSleep
    /\ beyond = FALSE
    /\ req_offsets = <<>>
    /\ files = {}
    /\ exit_code = -1
    /\ ClassifierUnused
    /\ MainCalls
    /\ ResolverUnused
    /\ ViewerUnused

GroupByPlat ==
    /\ plats' = group_by_plat(parcels)
    /\ computed' = computed \cup {"plats"}
    /\ UNCHANGED <<parcels, stats, configVars, runVars, histVars, clVars, auxVars>>

CalculateStatistics ==
    /\ stats' = calculate_statistics(parcels)
    /\ computed' = computed \cup {"stats"}
    /\ UNCHANGED <<parcels, plats, configVars, runVars, histVars, clVars, auxVars>>

NextAgg == GroupByPlat \/ CalculateStatistics

AggSpec == InitAgg /\ [][NextAgg]_vars

\* the number of parcels of a list with a status among `statuses`
CountStatus(parcel_list, statuses) ==
    Cardinality({i \in 1..Len(parcel_list) : parcel_list[i].status \in statuses})

RECURSIVE ExactSum(_, _)
ExactSum(parcel_list, i) ==
    IF i = 0 THEN 0 ELSE ExactSum(parcel_list, i - 1) + parcel_list[i].acreage

RECURSIVE SumAbs(_, _)
SumAbs(parcel_list, i) ==
    IF i = 0 THEN 0 ELSE SumAbs(parcel_list, i - 1) + Abs(parcel_list[i].acreage)

\* the float sum of the acreages, taken from left to right
RECURSIVE FloatSum(_, _)
FloatSum(parcel_list, i) ==
    IF i = 0 THEN 0 ELSE FAdd(FloatSum(parcel_list, i - 1), parcel_list[i].acreage)

StatusCountsRight ==
    /\ stats.total_parcels = Len(parcels)
    /\ stats.solar_developed + stats.active_leases + stats.open_land
            = stats.total_parcels
    /\ stats.solar_developed = CountStatus(parcels, {"solar_developed"})
    /\ stats.active_leases = CountStatus(parcels, {"active_lease"})
    /\ stats.open_land = CountStatus(parcels, {"open"})

\* solar_acreage + lease_acreage + open_acreage, as Python evaluates it
StatusAcreage == FAdd(FAdd(stats.solar_acreage, stats.lease_acreage), stats.open_acreage)

AllZero ==
    /\ stats.total_parcels = 0
    /\ stats.solar_developed = 0 /\ stats.active_leases = 0 /\ stats.open_land = 0
    /\ stats.total_acreage = 0
    /\ stats.solar_acreage = 0 /\ stats.lease_acreage = 0 /\ stats.open_acreage = 0

NonNegative == \A i \in 1..Len(parcels) : parcels[i].acreage >= 0

\* C8 as claimed, and on parcels of non-negative acreage alone: the status
\* counts add up to the number of parcels and the status acreages add up to
\* exactly the total acreage.
StatisticsExact ==
    ("stats" \in computed /\ NonNegative) =>
        /\ StatusCountsRight
        /\ StatusAcreage = stats.total_acreage
        /\ parcels = <<>> => AllZero

\* C8: the status counts add up to the number of parcels; the status
\* acreages add up to the total acreage up to rounding: exactly when the
\* acreages are small enough for every sum to be exact, and otherwise within
\* the rounding error of the n + 2 additions; on the empty list all is zero.
StatisticsConsistent ==
    "stats" \in computed =>
        LET n == Len(parcels)
            mass == SumAbs(parcels, n)
        IN  /\ StatusCountsRight
            /\ parcels = <<>> => AllZero
            /\ mass <= Pow2(FloatBits) =>
                    /\ stats.total_acreage = ExactSum(parcels, n)
                    /\ StatusAcreage = stats.total_acreage
            /\ Abs(StatusAcreage - stats.total_acreage) * (Pow2(FloatBits) - (n + 2))
                    <= 2 * (n + 2) * mass

\* three parcels, one of each status, whose sums are exact
StatisticsWitness ==
    /\ "stats" \in computed
    /\ Len(parcels) = 3
    /\ stats.solar_developed = 1 /\ stats.active_leases = 1 /\ stats.open_land = 1
    /\ stats.total_acreage = 10
    /\ StatusAcreage = 10

\* the members of a plat: the parcels of that subdivision, in list order
Members(plat_name) == SelectSeq(parcels, LAMBDA p : p.subdivision = plat_name)

\* C9: one plat for every subdivision name among the parcels and no other;
\* a plat holds exactly the parcels of its subdivision, in list order; its
\* counts are the numbers of its members by status and add up to
\* total_parcels = len(parcels); its total_acreage is the float sum of its
\* members' acreages in that order.
PlatPartition ==
    "plats" \in computed =>
        /\ DOMAIN plats = {parcels[i].subdivision : i \in 1..Len(parcels)}
        /\ \A plat_name \in DOMAIN plats :
            LET plat == plats[plat_name]
                members == Members(plat_name)
            IN  /\ plat.name = plat_name
                /\ plat.parcels = members
                /\ plat.total_parcels = Len(members)
                /\ plat.solar_developed + plat.active_leases + plat.open_land
                        = plat.total_parcels
                /\ plat.solar_developed = CountStatus(members, {"solar_developed"})
                /\ plat.active_leases = CountStatus(members, {"active_lease"})
                /\ plat.open_land = CountStatus(members, {"open"})
                /\ plat.total_acreage = FloatSum(members, Len(members))

\* two plats whose parcels alternate in the list
PlatPartitionWitness ==
    /\ "plats" \in computed
    /\ Len(parcels) = 3
    /\ parcels[1].subdivision = OakHill
    /\ parcels[2].subdivision = Unplatted
    /\ parcels[3].subdivision = OakHill
    /\ Cardinality(DOMAIN plats) = 2
    /\ plats[OakHill].total_parcels = 2

\* C14: a run of test_small_area() ends either after a scrape that
\* succeeded, with the test JSON, the test GeoJSON and docs/data/parcels.geojson
\* written and exit code 0, or after a fetch that failed, with exit code 1.
TestEntryOutcome ==
    (entry = "test" /\ pc = "exit") =>
        \/ /\ result = "true"
           /\ files = {"test_json", "test_geojson", "pages_geojson"}
           /\ exit_code = 0
        \/ /\ result = "false"
           /\ requests > 0
           /\ exit_code = 1

(***************************************************************************)
(* scrape() called again on the instance it has returned from.  The call   *)
(* starts its own offset, count and requests; the instance keeps what      *)
(* __init__ gave it and what earlier calls left in it.                     *)
(***************************************************************************)
ScrapeAgain ==
    /\ pc = "returned"
    /\ calls < MaxCalls
    /\ "description" \in target_polygon
    /\ calls' = calls + 1
    /\ pc' = "send"
    /\ offset' = 0
    /\ total_fetched' = 0
    /\ attempt' = 0
    /\ result' = "none"
    /\ page_requests' = 0
    /\ requests' = 0
    /\ pages_done' = 0
    /\ skipped' = 0
    /\ last_response' = "none"
    /\ last_features' = <<>>
    /\ last_sleep' = NoSleep
    /\ beyond' = FALSE
    /\ req_offsets' = <<>>
    /\ UNCHANGED <<files, exit_code, configVars, objVars, clVars, entry, target_polygon,
                   svc, fnVars, viewVars>>

NextRerun ==
    \/ Next
    \/ ScrapeAgain

RerunSpec == Init /\ [][NextRerun]_vars

\* C15: after a scrape() call that returned True, the parcels list and the
\* statistics hold the parcels of the features fetched during that call and
\* no others.
RunStateRebuilt ==
    result = "true" =>
        /\ Len(parcels) = total_fetched
        /\ stats.total_parcels = total_fetched

(***************************************************************************)
(* The scrape against a service that holds a fixed ordered list of         *)
(* features, answers every request, and returns for resultOffset o and     *)
(* resultRecordCount c the features o+1 .. o+c of its list.  The list is   *)
(* shorter than MaxPages full pages.                                       *)
(***************************************************************************)
ServiceFeature(id) ==
    [properties |->
        [PROP_ID |-> PyStr(<<id>>),
         OWNER_NAME |-> PyStr(<<"B","o","b">>),
         ACRES |-> PyInt(1)]]

ServiceFeatures == {ServiceFeature(id) : id \in {"1", "2", "3"}}

ServiceLists(n) == UNION {[1..k -> ServiceFeatures] : k \in 0..n}

ServicePageOf(list, params) ==
    LET from == params.resultOffset + 1
        upto == params.resultOffset + params.resultRecordCount
    IN  IF from > Len(list) THEN <<>>
        ELSE SubSeq(list, from, IF upto < Len(list) THEN upto ELSE Len(list))

InitService ==
    /\ retry_attempts \in 1..MaxRetry
    /\ max_records \in 1..MaxPageSize
    /\ Constructed
    /\ ClassifierUnused
    /\ entry = "main"
    /\ target_polygon = configured_polygon
    /\ svc \in ServiceLists(MaxService)
    /\ Len(svc) < max_records * MaxPages
    /\ calls = 0
    /\ ResolverUnused
    /\ ViewerUnused

\* the service answers the request just sent
ServicePage ==
    /\ pc = "wait"
    /\ HandlePage(ServicePageOf(svc, QueryParams(offset, max_records)))

NextService ==
    \/ StartScrape
    \/ SendRequest
    \/ ServicePage
    \/ MainFinish

ServiceSpec == InitService /\ [][NextService]_vars

\* C16: against such a service scrape() does not fail; the offsets it
\* requests are 0, P, 2P, ... in that order, one request each; the request
\* that follows a full page is preceded by the rate-limit sleep; and when it
\* returns True, after n \div P + 1 requests, parcels holds one parcel for
\* every feature of the service's list, in the list's order.
CompletePagination ==
    /\ result # "false"
    /\ ~beyond
    /\ \A i \in 1..Len(req_offsets) : req_offsets[i] = (i - 1) * max_records
    /\ Len(req_offsets) = requests
    /\ (pc = "send" /\ offset > 0) => last_sleep = RateLimitSleep
    /\ result = "true" =>
        /\ requests = (Len(svc) \div max_records) + 1
        /\ Len(parcels) = Len(svc)
        /\ \A i \in 1..Len(svc) :
               parcels[i].parcel_id = svc[i].properties.PROP_ID.s

\* three distinct features fetched with page size 2: a full page, then the
\* last one
CompletePaginationWitness ==
    /\ result = "true"
    /\ max_records = 2
    /\ svc = <<ServiceFeature("1"), ServiceFeature("2"), ServiceFeature("3")>>
    /\ req_offsets = <<0, 2>>
    /\ Len(parcels) = 3

(***************************************************************************)
(* The viewer (web_server.py) next to a running export.  output/ holds the *)
(* files of an earlier, finished run ("old") or nothing; the exporter      *)
(* writes this run's JSON and GeoJSON ("new") one after the other, each by *)
(* open(path, 'w') followed by json.dump, so a file exists, and is the     *)
(* most recently modified one, from the moment it is opened, and holds a   *)
(* complete document only once it is closed.                               *)
(***************************************************************************)
NoFiles == [f \in {} |-> "complete"]

EarlierExport ==
    [f \in {<<"old", "json">>, <<"old", "geojson">>} |-> "complete"]

InitViewer ==
    /\ retry_attempts = 1
    /\ max_records = 1
    /\ Constructed
    /\ ClassifierUnused
    /\ MainCalls
    /\ ResolverUnused
    /\ disk \in {NoFiles, EarlierExport}
    /\ exp_pc = "idle"
    /\ written = 0
    /\ vw_endpoint = ""
    /\ vw_response = 0
    /\ vw_served = 0

\* the file extension the exporter writes next
NextExport == IF exp_pc = "idle" THEN "json" ELSE "geojson"

\* with open(output_path, 'w') as f:
ExportOpen ==
    /\ exp_pc \in {"idle", "json_closed"}
    /\ exp_pc' = NextExport
    /\ disk' = [f \in DOMAIN disk \cup {<<"new", NextExport>>} |->
                   IF f = <<"new", NextExport>> THEN "partial" ELSE disk[f]]
    /\ written' = 0
    /\ UNCHANGED <<configVars, objVars, runVars, histVars, clVars, callVars, fnVars,
                   vw_endpoint, vw_response, vw_served>>

\* json.dump(data, f, indent=2): one more piece of the document reaches the file
ExportWrite ==
    /\ exp_pc \in {"json", "geojson"}
    /\ written < ExportChunks
    /\ written' = written + 1
    /\ UNCHANGED <<configVars, objVars, runVars, histVars, clVars, callVars, fnVars,
                   disk, exp_pc, vw_endpoint, vw_response, vw_served>>

\* leaving the with block closes the file: the document is complete
ExportClose ==
    /\ exp_pc \in {"json", "geojson"}
    /\ written = ExportChunks
    /\ disk' = [disk EXCEPT ![<<"new", exp_pc>>] = "complete"]
    /\ exp_pc' = IF exp_pc = "json" THEN "json_closed" ELSE "done"
    /\ UNCHANGED <<configVars, objVars, runVars, histVars, clVars, callVars, fnVars,
                   written, vw_endpoint, vw_response, vw_served>>

\* the extension each endpoint globs for
EndpointFiles == [parcels |-> "geojson", stats |-> "json"]

\* max(files, key=lambda p: p.stat().st_mtime): this run's file if it exists
LatestFile(directory, ext) ==
    IF <<"new", ext>> \in DOMAIN directory THEN <<"new", ext>> ELSE <<"old", ext>>

\* get_parcels / get_stats: 404 without a file; otherwise json.load on the
\* latest file, whose JSONDecodeError on an unfinished document nothing
\* catches, so the request ends as an internal server error
ViewerResponse(directory, endpoint) ==
    LET ext == EndpointFiles[endpoint]
        found == {f \in DOMAIN directory : f[2] = ext}
    IN  IF found = {} THEN 404
        ELSE IF directory[LatestFile(directory, ext)] = "partial" THEN 500
        ELSE 200

ViewerGet ==
    /\ vw_served < MaxRequests
    /\ \E endpoint \in {"parcels", "stats"} :
           /\ vw_endpoint' = endpoint
           /\ vw_response' = ViewerResponse(disk, endpoint)
    /\ vw_served' = vw_served + 1
    /\ UNCHANGED <<configVars, objVars, runVars, histVars, clVars, callVars, fnVars,
                   disk, exp_pc, written>>

NextViewer ==
    \/ ExportOpen
    \/ ExportWrite
    \/ ExportClose
    \/ ViewerGet

ViewerSpec == InitViewer /\ [][NextViewer]_vars

\* C13: a viewer request that meets an export file still being written does
\* not end in an unhandled error.
ViewerToleratesPartialExport ==
    vw_response # 500

====
